---- MODULE Spec2Model ----
(***************************************************************************)
(* A model of src/src/document_processor.py: the batch pipeline            *)
(* process_legal_documents (walk, filter, extract, detect languages,       *)
(* classify, analyze, append) and the functions it calls.                  *)
(*                                                                         *)
(* Python values:                                                          *)
(*   - a str the program parses character by character (a file name, a    *)
(*     model reply, a label) is a tuple of one-character strings;          *)
(*   - a document text, which the program only measures, slices and       *)
(*     concatenates, is a run-length encoded str: a tuple of runs          *)
(*     [ch, n] (n copies of ch), adjacent runs having different ch;        *)
(*   - a str the program passes on unread (a template, a reply of the      *)
(*     analysis call, an exception message) is a TLA+ string, and an       *)
(*     f-string or a + of such parts is the tuple of its parts;            *)
(*   - a confidence is in hundredths (1.0 is 100, 0.0 is 0);               *)
(*   - the outcome of a call is Ret(v) or Raise(message).                  *)
(***************************************************************************)
EXTENDS Integers, Sequences, FiniteSets, TLC

VARIABLES
    walk,              \* what os.walk(base_path) yields: a tuple of [root, files]
    di,                \* index in walk of the directory being listed
    fi,                \* index in walk[di].files of the file being handled
    pc,                \* position in process_legal_documents
    file_path,         \* local file_path, as str(file_path)
    text,              \* local text
    languages,         \* local languages
    primary_language,  \* local primary_language
    doc_type,          \* local doc_type
    analysis,          \* local analysis
    results,           \* local results, the list being built
    returned,          \* the value returned to the caller
    log,               \* the per-file steps taken so far, in order
    call               \* the last direct call of one function (unit runs)

vars == <<walk, di, fi, pc, file_path, text, languages, primary_language,
          doc_type, analysis, results, returned, log, call>>

---------------------------------------------------------------------------
(* Outcomes of calls, None, and str methods *)

Ret(v) == [raised |-> FALSE, value |-> v]
Raise(m) == [raised |-> TRUE, message |-> m]

NoneText == [isNone |-> TRUE, s |-> <<>>]
Str(s) == [isNone |-> FALSE, s |-> s]

UpperAlpha == <<"A", "B", "C", "D", "E", "F", "G", "H", "I", "J", "K", "L", "M",
                "N", "O", "P", "Q", "R", "S", "T", "U", "V", "W", "X", "Y", "Z">>
LowerAlpha == <<"a", "b", "c", "d", "e", "f", "g", "h", "i", "j", "k", "l", "m",
                "n", "o", "p", "q", "r", "s", "t", "u", "v", "w", "x", "y", "z">>
Whitespace == {" ", "\t", "\n", "\r"}

LowerMap ==
    [c \in {UpperAlpha[i] : i \in 1..Len(UpperAlpha)} |->
        LowerAlpha[CHOOSE i \in 1..Len(UpperAlpha) : UpperAlpha[i] = c]]

LowerChar(c) == IF c \in DOMAIN LowerMap THEN LowerMap[c] ELSE c

\* s.lower()
lower(s) == [i \in 1..Len(s) |-> LowerChar(s[i])]

\* s.startswith(p)
startswith(s, p) == Len(s) >= Len(p) /\ SubSeq(s, 1, Len(p)) = p

\* s.endswith(p)
endswith(s, p) == Len(s) >= Len(p) /\ SubSeq(s, Len(s) - Len(p) + 1, Len(s)) = p

\* sub in s
contains(s, sub) ==
    \E i \in 0..(Len(s) - Len(sub)) : SubSeq(s, i + 1, i + Len(sub)) = sub

\* s.split(sep), sep one character: the pieces between the separators
split(s, sep) ==
    LET seps == {i \in 1..Len(s) : s[i] = sep}
        nth(k) == IF k = 0 THEN 0
                  ELSE IF k > Cardinality(seps) THEN Len(s) + 1
                  ELSE CHOOSE i \in seps : Cardinality({j \in seps : j < i}) = k - 1
    IN  [k \in 1..(Cardinality(seps) + 1) |->
            SubSeq(s, nth(k - 1) + 1, nth(k) - 1)]

\* s[i:].replace(old, new)
RECURSIVE replace_from(_, _, _, _)
replace_from(s, old, new, i) ==
    IF i > Len(s) THEN <<>>
    ELSE IF i + Len(old) - 1 <= Len(s) /\ SubSeq(s, i, i + Len(old) - 1) = old
         THEN new \o replace_from(s, old, new, i + Len(old))
         ELSE <<s[i]>> \o replace_from(s, old, new, i + 1)

\* s.replace(old, new): every occurrence, left to right, not overlapping
replace(s, old, new) == replace_from(s, old, new, 1)

\* s.strip(): from the first to the last character that is not whitespace
strip(s) ==
    LET keep == {i \in 1..Len(s) : s[i] \notin Whitespace}
    IN  IF keep = {} THEN <<>>
        ELSE SubSeq(s, CHOOSE i \in keep : \A j \in keep : i <= j,
                       CHOOSE i \in keep : \A j \in keep : j <= i)

---------------------------------------------------------------------------
(* Document texts: run-length encoded str *)

Run(ch, n) == IF n <= 0 THEN <<>> ELSE <<[ch |-> ch, n |-> n]>>

\* len(t)
RECURSIVE py_len(_)
py_len(t) == IF t = <<>> THEN 0 ELSE t[1].n + py_len(Tail(t))

\* a + b
concat(a, b) ==
    IF a = <<>> THEN b
    ELSE IF b = <<>> THEN a
    ELSE IF a[Len(a)].ch = b[1].ch
         THEN SubSeq(a, 1, Len(a) - 1)
              \o <<[ch |-> b[1].ch, n |-> a[Len(a)].n + b[1].n]>>
              \o Tail(b)
         ELSE a \o b

\* t[:k]
RECURSIVE slice_to(_, _)
slice_to(t, k) ==
    IF k <= 0 \/ t = <<>> THEN <<>>
    ELSE IF t[1].n >= k THEN <<[ch |-> t[1].ch, n |-> k]>>
    ELSE <<t[1]>> \o slice_to(Tail(t), k - t[1].n)

\* sep.join(parts), sep one character
RECURSIVE join(_, _)
join(sep, parts) ==
    IF parts = <<>> THEN <<>>
    ELSE IF Len(parts) = 1 THEN parts[1]
    ELSE concat(concat(parts[1], Run(sep, 1)), join(sep, Tail(parts)))

\* text = ""; for page in pages: text += page.extract_text()
RECURSIVE concat_all(_)
concat_all(parts) ==
    IF parts = <<>> THEN <<>> ELSE concat(parts[1], concat_all(Tail(parts)))

\* "text is not None" for "text"
truthy_not_none(t) == ~t.isNone

\* bool(text) of a str or None
truthy(t) == ~t.isNone /\ py_len(t.s) > 0

---------------------------------------------------------------------------
(* Literals of the program *)

s_Type == <<"T", "y", "p", "e", ":">>
s_pdf == <<".", "p", "d", "f">>
s_docx == <<".", "d", "o", "c", "x">>
s_tmp == <<"~", "$">>
s_nda == <<"n", "d", "a">>
s_non_disclosure == <<"n", "o", "n", "-", "d", "i", "s", "c", "l", "o", "s", "u", "r", "e">>
s_agreement == <<"a", "g", "r", "e", "e", "m", "e", "n", "t">>
s_contract == <<"c", "o", "n", "t", "r", "a", "c", "t">>
s_default == <<"d", "e", "f", "a", "u", "l", "t">>

\* max_chars in analyze_with_gemini
max_chars == 30000

\* the length of the sample in detect_document_type_with_gemini
sample_chars == 1000

\* The table of get_summarization_prompt. A template is named by its first
\* line; the eight templates are eight different strings.
prompts ==
    (s_nda :> [en |-> "Please analyze this Non-Disclosure Agreement and provide: ...",
               id |-> "Mohon analisis Perjanjian Kerahasiaan ini dan berikan: ..."])
    @@ (s_contract :> [en |-> "Please analyze this Contract and provide: ...",
                       id |-> "Mohon analisis Kontrak ini dan berikan: ..."])
    @@ (s_agreement :> [en |-> "Please analyze this Agreement and provide: ...",
                        id |-> "Mohon analisis Perjanjian ini dan berikan: ..."])
    @@ (s_default :> [en |-> "Please analyze this legal document and provide: ...",
                      id |-> "Mohon analisis dokumen hukum ini dan berikan: ..."])

\* d.get(k, dflt)
dict_get(d, k, dflt) == IF k \in DOMAIN d THEN d[k] ELSE dflt

---------------------------------------------------------------------------
(* The functions of the program. What a library or the remote model does   *)
(* is an argument: the content the parser finds, the outcome of a call.    *)

\* extract_text_from_docx: Document(docx_path) raises on an unreadable file
extract_text_from_docx(content) ==
    IF content.kind = "unreadable" THEN Ret(NoneText)
    ELSE Ret(Str(join("\n", content.parts)))

\* extract_text_from_pdf: open or PdfReader raises on an unreadable file
extract_text_from_pdf(content) ==
    IF content.kind = "unreadable" THEN Ret(NoneText)
    ELSE IF content.kind = "encrypted" THEN Ret(NoneText)
    ELSE Ret(Str(concat_all(content.parts)))

\* detect_document_languages without its inner try: a failure of the primary
\* detector goes straight to the 'unknown' marker
detect_document_languages_no_fallback(primary, fallback) ==
    IF ~primary.raised
    THEN Ret([i \in 1..Len(primary.value) |->
                 <<primary.value[i].lang, primary.value[i].prob>>])
    ELSE Ret(<< <<"unknown", 0>> >>)

\* detect_document_languages: primary is the outcome of detect_langs(text),
\* a list of Language objects [lang, prob]; fallback that of detect(text)
detect_document_languages(primary, fallback) ==
    IF ~primary.raised
    THEN Ret([i \in 1..Len(primary.value) |->
                 <<primary.value[i].lang, primary.value[i].prob>>])
    ELSE IF ~fallback.raised
         THEN Ret(<< <<fallback.value, 100>> >>)
         ELSE Ret(<< <<"unknown", 0>> >>)

\* text[:1000] + "..." if len(text) > 1000 else text
sample_text(t) ==
    IF py_len(t) > sample_chars
    THEN [body |-> slice_to(t, sample_chars), suffix |-> "..."]
    ELSE [body |-> t, suffix |-> ""]

\* full_prompt of detect_document_type_with_gemini
type_prompt(t) ==
    <<"Please analyze this legal document and identify its specific type. ...",
      "\n", sample_text(t)>>

\* parse_type without .lower() on the label it returns
parse_type_keep_case(response_text) ==
    LET type_line == SelectSeq(split(response_text, "\n"),
                               LAMBDA line : startswith(line, s_Type))
    IN  IF type_line /= <<>>
        THEN LET dt == strip(replace(type_line[1], s_Type, <<>>))
             IN  IF contains(lower(dt), s_nda)
                    \/ contains(lower(dt), s_non_disclosure)
                 THEN s_nda
                 ELSE IF contains(lower(dt), s_agreement) THEN s_agreement
                 ELSE IF contains(lower(dt), s_contract) THEN s_contract
                 ELSE dt
        ELSE s_default

\* Lines 91-100 for type_line[0] = line. Each intermediate str is bound over
\* a one-element set, so that it is computed once.
type_of_line(line) ==
    CHOOSE label \in
        {IF contains(doc, s_nda) \/ contains(doc, s_non_disclosure) THEN s_nda
         ELSE IF contains(doc, s_agreement) THEN s_agreement
         ELSE IF contains(doc, s_contract) THEN s_contract
         ELSE doc :
            doc \in {lower(stripped) :
                stripped \in {strip(replaced) :
                    replaced \in {replace(line, s_Type, <<>>)}}}} : TRUE

\* The parsing of the reply in detect_document_type_with_gemini
parse_type(response_text) ==
    CHOOSE label \in
        {IF type_line /= <<>> THEN type_of_line(type_line[1]) ELSE s_default :
            type_line \in
                {SelectSeq(lines, LAMBDA line : startswith(line, s_Type)) :
                    lines \in {split(response_text, "\n")}}} : TRUE

\* detect_document_type_with_gemini without its try/except
detect_document_type_with_gemini_no_except(t, reply) ==
    IF reply.raised THEN Raise(reply.message) ELSE Ret(parse_type(reply.value))

\* detect_document_type_with_gemini: reply is the outcome of
\* model.generate_content(full_prompt).text
detect_document_type_with_gemini(t, reply) ==
    IF reply.raised THEN Ret(s_default) ELSE Ret(parse_type(reply.value))

\* get_summarization_prompt with prompts[doc_type] for prompts.get(doc_type, ...)
get_summarization_prompt_no_default(label, language) ==
    LET lang == IF language \notin {"en", "id"} THEN "en" ELSE language
    IN  IF label \in DOMAIN prompts THEN Ret(prompts[label][lang])
        ELSE Raise("KeyError")

\* get_summarization_prompt
get_summarization_prompt(label, language) ==
    LET lang == IF language \notin {"en", "id"} THEN "en" ELSE language
    IN  Ret(dict_get(prompts, label, prompts[s_default])[lang])

\* truncated with len(text) >= max_chars for len(text) > max_chars
truncated_at_limit(t) ==
    IF py_len(t) >= max_chars
    THEN [body |-> slice_to(t, max_chars),
          suffix |-> "\n[Document truncated due to length...]"]
    ELSE [body |-> t, suffix |-> ""]

\* The text analyze_with_gemini puts in its prompt
truncated(t) ==
    IF py_len(t) > max_chars
    THEN [body |-> slice_to(t, max_chars),
          suffix |-> "\n[Document truncated due to length...]"]
    ELSE [body |-> t, suffix |-> ""]

\* full_prompt of analyze_with_gemini (none when building it raises)
analysis_prompt(t, label, language) ==
    LET prompt == get_summarization_prompt(label, language)
    IN  IF prompt.raised THEN <<>>
        ELSE <<prompt.value, "\n\nDocument text:\n", truncated(t)>>

\* analyze_with_gemini without its try/except
analyze_with_gemini_no_except(t, label, language, reply) ==
    LET prompt == get_summarization_prompt(label, language)
    IN  IF prompt.raised THEN Raise(prompt.message)
        ELSE IF reply.raised THEN Raise(reply.message)
        ELSE Ret(reply.value)

\* analyze_with_gemini: reply is the outcome of
\* model.generate_content(full_prompt).text
analyze_with_gemini(t, label, language, reply) ==
    LET prompt == get_summarization_prompt(label, language)
    IN  IF prompt.raised
        THEN Ret(<<"Error using Gemini API: ", prompt.message>>)
        ELSE IF reply.raised
             THEN Ret(<<"Error using Gemini API: ", reply.message>>)
             ELSE Ret(reply.value)

\* The filter without "and not file.startswith('~$')"
is_supported_with_temp(file) ==
    endswith(lower(file), s_pdf) \/ endswith(lower(file), s_docx)

\* file.lower().endswith(('.pdf', '.docx')) and not file.startswith('~$')
is_supported(file) ==
    /\ endswith(lower(file), s_pdf) \/ endswith(lower(file), s_docx)
    /\ ~startswith(file, s_tmp)

\* file.lower().endswith('.pdf')
is_pdf(file) == endswith(lower(file), s_pdf)

\* str(Path(root) / file)
path_str(root, file) == root \o <<"/">> \o file

\* languages[0][0] if languages else 'unknown'
primary_of(langs) ==
    IF Len(langs) > 0 THEN Ret(langs[1][1]) ELSE Ret("unknown")

---------------------------------------------------------------------------
(* The directory trees and the outcomes of the external calls that the     *)
(* runs of process_legal_documents range over                              *)

\* The most files a tree holds
MaxFiles == 2

n_a_pdf == <<"a", ".", "p", "d", "f">>
n_B_Docx == <<"B", ".", "D", "o", "c", "x">>
n_tmp_docx == <<"~", "$", "B", ".", "D", "o", "c", "x">>
n_txt == <<"e", ".", "t", "x", "t">>
d_base == <<"d", "o", "c", "s">>
d_sub == <<"d", "o", "c", "s", "/", "o", "l", "d">>

\* The file names a directory may hold
Names == {n_a_pdf, n_B_Docx, n_tmp_docx, n_txt}

\* The listings of one directory: tuples of different names
Listings(n) ==
    {fs \in UNION {[1..k -> Names] : k \in 0..n} :
        \A i, j \in 1..Len(fs) : i /= j => fs[i] /= fs[j]}

\* What os.walk yields, top-down: nothing (no such directory), the root, or
\* the root and then its subdirectory
Walks ==
    {<<>>}
    \cup {<<[root |-> d_base, files |-> f]>> : f \in Listings(MaxFiles)}
    \cup {<<[root |-> d_base, files |-> f], [root |-> d_sub, files |-> g]>> :
            <<f, g>> \in {p \in Listings(MaxFiles) \X Listings(MaxFiles) :
                            Len(p[1]) + Len(p[2]) <= MaxFiles}}

\* What PyPDF2 finds in a .pdf file
PdfContents ==
    {[kind |-> "unreadable", parts |-> <<>>],
     [kind |-> "encrypted", parts |-> <<>>],
     [kind |-> "pages", parts |-> <<>>],
     [kind |-> "pages", parts |-> <<Run("a", 3), Run("b", 2)>>]}

\* What python-docx finds in a .docx file
DocxContents ==
    {[kind |-> "unreadable", parts |-> <<>>],
     [kind |-> "paragraphs", parts |-> <<>>],
     [kind |-> "paragraphs", parts |-> <<Run("x", max_chars + 1)>>]}

\* The outcomes of detect_langs(text): candidates by descending probability
PrimaryOutcomes ==
    {Raise("No features in text."),
     Ret(<<>>),
     Ret(<<[lang |-> "id", prob |-> 85], [lang |-> "en", prob |-> 14]>>)}

\* The outcomes of detect(text). In the runs of the pipeline the fallback
\* detector fails when it is asked; its answers are those of the direct calls.
FallbackOutcomes == {Raise("No features in text.")}

r_nda == <<"T", "y", "p", "e", ":", " ", "N", "D", "A">>
r_poa == <<"T", "y", "p", "e", ":", " ", "P", "o", "w", "e", "r", " ", "o", "f", " ", "A", "t", "t", "o", "r", "n", "e", "y", "\n", "C", "o", "n", "f", "i", "d", "e", "n", "c", "e", ":", " ", "H", "I", "G", "H">>
r_notype == <<"I", " ", "c", "a", "n", "n", "o", "t", " ", "t", "e", "l", "l", ".">>

\* The outcomes of the classification call
TypeReplies == {Raise("429 quota exceeded"), Ret(r_poa)}

\* The outcomes of the analysis call
AnalysisReplies == {Raise("504 deadline exceeded"), Ret(<<"1. Key parties ...">>)}

---------------------------------------------------------------------------
(* process_legal_documents, one action per step *)

file == walk[di].files[fi]

Init ==
    /\ walk \in Walks
    /\ di = 1
    /\ fi = 1
    /\ pc = "walk"
    /\ file_path = <<>>
    /\ text = NoneText
    /\ languages = <<>>
    /\ primary_language = ""
    /\ doc_type = <<>>
    /\ analysis = <<>>
    /\ results = <<>>
    /\ returned = <<>>
    /\ log = <<>>
    /\ call = [fn |-> "none"]

\* One entry of log: the step taken for file walk[dir].files[idx], how the
\* external call of the step ended (out) and what the step produced (val)
Step(what, out, val) ==
    [dir |-> di, idx |-> fi, step |-> what, out |-> out, val |-> val]

\* for root, dirs, files in os.walk(base_path): the next directory
NextDir ==
    /\ pc = "walk"
    /\ di <= Len(walk)
    /\ fi > Len(walk[di].files)
    /\ di' = di + 1
    /\ fi' = 1
    /\ UNCHANGED <<walk, pc, file_path, text, languages, primary_language,
                   doc_type, analysis, results, returned, log, call>>

\* for file in files: a file the filter rejects
Skip ==
    /\ pc = "walk"
    /\ di <= Len(walk)
    /\ fi <= Len(walk[di].files)
    /\ ~is_supported(file)
    /\ fi' = fi + 1
    /\ UNCHANGED <<walk, di, pc, file_path, text, languages, primary_language,
                   doc_type, analysis, results, returned, log, call>>

\* for file in files: a file the filter accepts
Accept ==
    /\ pc = "walk"
    /\ di <= Len(walk)
    /\ fi <= Len(walk[di].files)
    /\ is_supported(file)
    /\ file_path' = path_str(walk[di].root, file)
    /\ pc' = "extract"
    /\ UNCHANGED <<walk, di, fi, text, languages, primary_language,
                   doc_type, analysis, results, returned, log, call>>

\* text = extract_text_from_pdf(file_path) or extract_text_from_docx(file_path);
\* if text:
Extract ==
    /\ pc = "extract"
    /\ \E content \in (IF is_pdf(file) THEN PdfContents ELSE DocxContents) :
         LET r == IF is_pdf(file) THEN extract_text_from_pdf(content)
                  ELSE extract_text_from_docx(content)
         IN  IF r.raised
             THEN /\ pc' = "raised"
                  /\ log' = Append(log, Step("extract", "raised", r.message))
                  /\ UNCHANGED <<text, fi>>
             ELSE /\ text' = r.value
                  /\ log' = Append(log, Step("extract",
                                IF r.value.isNone THEN content.kind
                                ELSE IF py_len(r.value.s) = 0 THEN "empty"
                                ELSE "text", ""))
                  /\ IF truthy(r.value)
                     THEN pc' = "detect" /\ fi' = fi
                     ELSE pc' = "walk" /\ fi' = fi + 1
    /\ UNCHANGED <<walk, di, file_path, languages, primary_language,
                   doc_type, analysis, results, returned, call>>

\* languages = detect_document_languages(text)
\* primary_language = languages[0][0] if languages else 'unknown'
Detect ==
    /\ pc = "detect"
    /\ \E primary \in PrimaryOutcomes, fallback \in FallbackOutcomes :
         LET r == detect_document_languages(primary, fallback)
         IN  IF r.raised
             THEN /\ pc' = "raised"
                  /\ log' = Append(log, Step("detect", "raised", r.message))
                  /\ UNCHANGED <<languages, primary_language>>
             ELSE LET p == primary_of(r.value)
                  IN  /\ languages' = r.value
                      /\ log' = Append(log, Step("detect",
                                    IF primary.raised
                                    THEN IF fallback.raised THEN "unknown"
                                         ELSE "fallback"
                                    ELSE "primary", r.value))
                      /\ IF p.raised
                         THEN pc' = "raised" /\ UNCHANGED primary_language
                         ELSE pc' = "classify" /\ primary_language' = p.value
    /\ UNCHANGED <<walk, di, fi, file_path, text, doc_type, analysis, results,
                   returned, call>>

\* Classify with one retry of a failed classification call
Classify_retry ==
    /\ pc = "classify"
    /\ \E reply \in TypeReplies, again \in TypeReplies :
         LET r == detect_document_type_with_gemini(text.s,
                      IF reply.raised THEN again ELSE reply)
             first == Step("classify_call",
                           IF reply.raised THEN "failed" ELSE "replied", r.value)
         IN  /\ doc_type' = r.value
             /\ pc' = "analyze"
             /\ log' = IF reply.raised
                       THEN log \o <<first, Step("classify_call",
                                IF again.raised THEN "failed" ELSE "replied",
                                r.value)>>
                       ELSE Append(log, first)
    /\ UNCHANGED <<walk, di, fi, file_path, text, languages, primary_language,
                   analysis, results, returned, call>>

\* doc_type = detect_document_type_with_gemini(text)
Classify ==
    /\ pc = "classify"
    /\ \E reply \in TypeReplies :
         LET r == detect_document_type_with_gemini(text.s, reply)
         IN  IF r.raised
             THEN /\ pc' = "raised"
                  /\ log' = Append(log, Step("classify_call", "raised", <<>>))
                  /\ UNCHANGED doc_type
             ELSE /\ doc_type' = r.value
                  /\ pc' = "analyze"
                  /\ log' = Append(log, Step("classify_call",
                                IF reply.raised THEN "failed" ELSE "replied",
                                r.value))
    /\ UNCHANGED <<walk, di, fi, file_path, text, languages, primary_language,
                   analysis, results, returned, call>>

\* analysis = analyze_with_gemini(text, doc_type, primary_language)
Analyze ==
    /\ pc = "analyze"
    /\ \E reply \in AnalysisReplies :
         LET r == analyze_with_gemini(text.s, doc_type, primary_language, reply)
         IN  /\ log' = Append(log, Step("analysis_call",
                           IF reply.raised THEN "failed" ELSE "replied",
                           IF reply.raised THEN <<reply.message>>
                           ELSE reply.value))
             /\ IF r.raised
                THEN pc' = "raised" /\ UNCHANGED analysis
                ELSE analysis' = r.value /\ pc' = "append"
    /\ UNCHANGED <<walk, di, fi, file_path, text, languages, primary_language,
                   doc_type, results, returned, call>>

\* results.append({...}), and on to the next file
AppendRecord ==
    /\ pc = "append"
    /\ results' = Append(results, [file_path |-> file_path,
                                   doc_type |-> doc_type,
                                   languages |-> languages,
                                   analysis |-> analysis])
    /\ fi' = fi + 1
    /\ pc' = "walk"
    /\ UNCHANGED <<walk, di, file_path, text, languages, primary_language,
                   doc_type, analysis, returned, log, call>>

\* return results
Return ==
    /\ pc = "walk"
    /\ di > Len(walk)
    /\ returned' = results
    /\ pc' = "done"
    /\ UNCHANGED <<walk, di, fi, file_path, text, languages, primary_language,
                   doc_type, analysis, results, log, call>>

Next ==
    \/ NextDir
    \/ Skip
    \/ Accept
    \/ Extract
    \/ Detect
    \/ Classify
    \/ Analyze
    \/ AppendRecord
    \/ Return

Spec == Init /\ [][Next]_vars

\* The interpreter runs the next statement: the program is one thread
LiveSpec == Init /\ [][Next]_vars /\ WF_vars(Next)

---------------------------------------------------------------------------
(* Direct calls of one function, on inputs drawn from bounded sets *)

\* The most tokens in a generated reply of the classification call
MaxTokens == 4

\* The most pages of a PDF and paragraphs of a DOCX in a direct call
MaxParts == 2

\* The most candidates detect_langs returns in a direct call
MaxLangs == 2

RECURSIVE flatten(_)
flatten(ts) == IF ts = <<>> THEN <<>> ELSE ts[1] \o flatten(Tail(ts))

Tuples(S, n) == UNION {[1..k -> S] : k \in 0..n}

t_NDA == <<"N", "D", "A">>
t_NonDisclosure == <<"N", "o", "n", "-", "D", "i", "s", "c", "l", "o", "s", "u", "r", "e">>
t_Agreement == <<"A", "g", "r", "e", "e", "m", "e", "n", "t">>
t_Contract == <<"C", "o", "n", "t", "r", "a", "c", "t">>
t_Lease == <<"L", "e", "a", "s", "e">>

Tokens == {s_Type, <<" ">>, <<"\n">>, t_NDA, t_NonDisclosure, t_Agreement,
           t_Contract, t_Lease}

r_hybrid == <<"T", "y", "p", "e", ":", " ", "T", "h", "i", "s", " ", "i", "s", " ", "a", "n", " ", "N", "D", "A", "/", "C", "o", "n", "t", "r", "a", "c", "t", " ", "h", "y", "b", "r", "i", "d">>
r_both == <<"T", "y", "p", "e", ":", " ", "S", "e", "r", "v", "i", "c", "e", " ", "A", "g", "r", "e", "e", "m", "e", "n", "t", " ", "(", "C", "o", "n", "t", "r", "a", "c", "t", ")">>
r_standard == <<"T", "y", "p", "e", ":", " ", "S", "t", "a", "n", "d", "a", "r", "d", " ", "C", "o", "n", "t", "r", "a", "c", "t">>
r_indented == <<" ", " ", "T", "y", "p", "e", ":", " ", "N", "D", "A">>
r_lowercase == <<"t", "y", "p", "e", ":", " ", "n", "d", "a">>
r_crlf == <<"S", "u", "m", "m", "a", "r", "y", "\r", "\n", "T", "y", "p", "e", ":", " ", "L", "o", "a", "n", " ", "A", "g", "r", "e", "e", "m", "e", "n", "t", "\r", "\n", "C", "o", "n", "f", "i", "d", "e", "n", "c", "e", ":", " ", "L", "O", "W">>
r_two_types == <<"T", "y", "p", "e", ":", " ", "L", "e", "a", "s", "e", "\n", "T", "y", "p", "e", ":", " ", "N", "D", "A">>
r_inner_type == <<"T", "y", "p", "e", ":", " ", "L", "e", "a", "s", "e", " ", "(", "T", "y", "p", "e", ":", " ", "O", "t", "h", "e", "r", ")">>

\* The outcomes of the classification call in a direct call
UnitTypeReplies ==
    {Raise("429 quota exceeded")}
    \cup {Ret(r) : r \in {r_nda, r_poa, r_notype, r_hybrid, r_both, r_standard,
                          r_indented, r_lowercase, r_crlf, r_two_types,
                          r_inner_type}}
    \cup {Ret(flatten(ts)) : ts \in Tuples(Tokens, MaxTokens)}

UnitStems == {<<>>, <<"a">>, <<"~", "$", "a">>, <<"A", "~", "$">>}
UnitExts == {<<>>, s_pdf, s_docx, <<".", "P", "D", "F">>, <<".", "D", "o", "c", "X">>,
             <<"p", "d", "f">>, <<".", "d", "o", "c">>, <<".", "t", "x", "t">>,
             <<".", "p", "d", "f", ".", "b", "a", "k">>, <<".", "d", "o", "c", "x", "~">>}

\* The file names of a direct call of the filter
UnitNames == {stem \o ext : stem \in UnitStems, ext \in UnitExts}

UnitLens == {0, 1, sample_chars - 1, sample_chars, sample_chars + 1,
             max_chars - 1, max_chars, max_chars + 1, max_chars + max_chars}

\* The texts of a direct call: up to two runs of characters
UnitTexts == {concat(Run("a", m), Run("b", n)) : m, n \in UnitLens}

\* The page texts and paragraph texts of a direct call
UnitPartTexts == {<<>>, Run("a", 3), Run("b", 2), Run("\n", 1)}

UnitPdfContents ==
    {[kind |-> "unreadable", parts |-> <<>>], [kind |-> "encrypted", parts |-> <<>>]}
    \cup {[kind |-> "pages", parts |-> ps] : ps \in Tuples(UnitPartTexts, MaxParts)}

UnitDocxContents ==
    {[kind |-> "unreadable", parts |-> <<>>]}
    \cup {[kind |-> "paragraphs", parts |-> ps] :
            ps \in Tuples(UnitPartTexts, MaxParts)}

UnitLangs == {"en", "id", "fr"}
UnitProbs == {85, 57, 42, 14}

\* What detect_langs returns: candidates of different languages, each of
\* probability above 0.1, sorted by descending probability
UnitCandidates ==
    {c \in Tuples([lang : UnitLangs, prob : UnitProbs], MaxLangs) :
        /\ \A i, j \in 1..Len(c) : i < j =>
              c[i].lang /= c[j].lang /\ c[i].prob >= c[j].prob
        /\ \A i, j \in 1..Len(c) : i /= j => c[i].prob + c[j].prob <= 100}

UnitPrimaryOutcomes ==
    {Raise("No features in text.")} \cup {Ret(c) : c \in UnitCandidates}

UnitFallbackOutcomes ==
    {Raise("No features in text.")} \cup {Ret(l) : l \in UnitLangs}

s_power_of_attorney == <<"p", "o", "w", "e", "r", " ", "o", "f", " ", "a", "t", "t", "o", "r", "n", "e", "y">>

UnitLabels == {s_nda, s_contract, s_agreement, s_default, s_power_of_attorney,
               <<>>, t_NDA, <<"n", "d", "a", " ">>}

UnitLanguages == {"en", "id", "fr", "unknown", "EN", ""}

UnitInit ==
    /\ walk = <<>>
    /\ di = 1
    /\ fi = 1
    /\ pc = "unit"
    /\ file_path = <<>>
    /\ text = NoneText
    /\ languages = <<>>
    /\ primary_language = ""
    /\ doc_type = <<>>
    /\ analysis = <<>>
    /\ results = <<>>
    /\ returned = <<>>
    /\ log = <<>>
    /\ call = [fn |-> "none"]

\* A direct call is made once; the pipeline's variables stay as they are
Idle ==
    /\ pc' = "called"
    /\ UNCHANGED <<walk, di, fi, file_path, text, languages, primary_language,
                   doc_type, analysis, results, returned, log>>

U_filter ==
    /\ pc = "unit"
    /\ \E name \in UnitNames :
         call' = [fn |-> "filter", file |-> name,
                  supported |-> is_supported(name), pdf |-> is_pdf(name)]
    /\ Idle

U_extract_pdf ==
    /\ pc = "unit"
    /\ \E content \in UnitPdfContents :
         call' = [fn |-> "extract_pdf", content |-> content,
                  result |-> extract_text_from_pdf(content)]
    /\ Idle

U_extract_docx ==
    /\ pc = "unit"
    /\ \E content \in UnitDocxContents :
         call' = [fn |-> "extract_docx", content |-> content,
                  result |-> extract_text_from_docx(content)]
    /\ Idle

U_detect ==
    /\ pc = "unit"
    /\ \E primary \in UnitPrimaryOutcomes, fallback \in UnitFallbackOutcomes :
         LET r == detect_document_languages(primary, fallback)
         IN  call' = [fn |-> "detect", primary |-> primary,
                      fallback |-> fallback, result |-> r,
                      primary_language |->
                          IF r.raised THEN r ELSE primary_of(r.value)]
    /\ Idle

U_classify ==
    /\ pc = "unit"
    /\ \E t \in {Run("a", sample_chars), Run("a", sample_chars + 1)},
          reply \in UnitTypeReplies :
         call' = [fn |-> "classify", text |-> t, reply |-> reply,
                  sent |-> type_prompt(t),
                  result |-> detect_document_type_with_gemini(t, reply)]
    /\ Idle

U_select ==
    /\ pc = "unit"
    /\ \E label \in UnitLabels, language \in UnitLanguages :
         call' = [fn |-> "select", label |-> label, language |-> language,
                  result |-> get_summarization_prompt(label, language)]
    /\ Idle

U_analyze ==
    /\ pc = "unit"
    /\ \E t \in UnitTexts, label \in {s_nda, s_power_of_attorney},
          language \in {"id", "unknown"}, reply \in AnalysisReplies :
         call' = [fn |-> "analyze", text |-> t, label |-> label,
                  language |-> language, reply |-> reply,
                  sent |-> analysis_prompt(t, label, language),
                  result |-> analyze_with_gemini(t, label, language, reply)]
    /\ Idle

UnitNext ==
    \/ U_filter
    \/ U_extract_pdf
    \/ U_extract_docx
    \/ U_detect
    \/ U_classify
    \/ U_select
    \/ U_analyze

UnitSpec == UnitInit /\ [][UnitNext]_vars

---------------------------------------------------------------------------
(* Claims about the functions, under UnitSpec *)

Closed == {s_nda, s_contract, s_agreement, s_default}
Keywords == {s_nda, s_non_disclosure, s_agreement, s_contract}

\* The lines of a reply that begin with "Type:", in order
TypeLines(reply) ==
    SelectSeq(split(reply, "\n"), LAMBDA line : startswith(line, s_Type))

\* The function claim C4 states: the prefix of the first "Type:" line and the
\* surrounding whitespace stripped, the rest lower-cased and matched
ClaimedType(reply) ==
    IF reply.raised \/ TypeLines(reply.value) = <<>> THEN s_default
    ELSE LET first == TypeLines(reply.value)[1]
             dt == lower(strip(SubSeq(first, Len(s_Type) + 1, Len(first))))
         IN  IF contains(dt, s_nda) \/ contains(dt, s_non_disclosure) THEN s_nda
             ELSE IF contains(dt, s_agreement) THEN s_agreement
             ELSE IF contains(dt, s_contract) THEN s_contract
             ELSE dt

(* C4: detect_document_type_with_gemini returns "default" when the call     *)
(* raises or the reply has no line beginning with "Type:", and otherwise    *)
(* the first such line without its prefix, stripped and lower-cased,        *)
(* mapped to "nda", "agreement" or "contract" by substring in that order,   *)
(* or returned verbatim.                                                    *)
C4_ClassifierAsClaimed ==
    call.fn = "classify" =>
        /\ ~call.result.raised
        /\ call.result.value = ClaimedType(call.reply)

C6_SelectIsLookup ==
    call.fn = "select" =>
        /\ ~call.result.raised
        /\ call.result.value =
              prompts[IF call.label \in DOMAIN prompts THEN call.label
                      ELSE s_default]
                     [IF call.language \in {"en", "id"} THEN call.language
                      ELSE "en"]
        /\ (call.label = s_nda /\ call.language = "id") =>
              call.result.value =
                  "Mohon analisis Perjanjian Kerahasiaan ini dan berikan: ..."
        /\ (call.label = s_power_of_attorney /\ call.language = "unknown") =>
              call.result.value =
                  "Please analyze this legal document and provide: ..."

(* C6, witness: an unlisted label with an unlisted language was looked up *)
C6_Witness ==
    /\ call.fn = "select"
    /\ call.label = s_power_of_attorney
    /\ call.language = "unknown"
    /\ ~call.result.raised

\* p is the text of the first characters of t
IsPrefix(p, t) ==
    /\ Len(p) <= Len(t)
    /\ \A i \in 1..(Len(p) - 1) : p[i] = t[i]
    /\ Len(p) > 0 => /\ p[Len(p)].ch = t[Len(p)].ch
                     /\ p[Len(p)].n <= t[Len(p)].n

(* C8: the prompt of analyze_with_gemini is the selected template, the      *)
(* "Document text:" header and the text: unmodified and without marker when *)
(* it has at most 30000 characters, and its first exactly 30000 characters  *)
(* followed by the truncation marker when it has more.                      *)
C8_Truncation ==
    call.fn = "analyze" =>
        /\ Len(call.sent) = 3
        /\ call.sent[1] =
              get_summarization_prompt(call.label, call.language).value
        /\ call.sent[2] = "\n\nDocument text:\n"
        /\ IF py_len(call.text) <= 30000
           THEN call.sent[3] = [body |-> call.text, suffix |-> ""]
           ELSE /\ py_len(call.sent[3].body) = 30000
                /\ IsPrefix(call.sent[3].body, call.text)
                /\ call.sent[3].suffix = "\n[Document truncated due to length...]"

(* C8, witness: a text of more than 30000 characters was cut, in its second *)
(* run of characters                                                        *)
C8_Witness ==
    /\ call.fn = "analyze"
    /\ py_len(call.text) > 30000
    /\ Len(call.sent[3].body) = 2
    /\ call.sent[3].suffix /= ""

\* The (code, confidence) pairs of the candidates of the primary detector
Pairs(cands) == [i \in 1..Len(cands) |-> <<cands[i].lang, cands[i].prob>>]

\* What claim C9 says of every outcome but the number of entries
C9_ByCase ==
    /\ ~call.result.raised
    /\ ~call.primary.raised =>
          /\ call.result.value = Pairs(call.primary.value)
          /\ \A i \in 1..Len(call.result.value) :
                call.result.value[1][2] >= call.result.value[i][2]
    /\ (call.primary.raised /\ ~call.fallback.raised) =>
          call.result.value = << <<call.fallback.value, 100>> >>
    /\ (call.primary.raised /\ call.fallback.raised) =>
          call.result.value = << <<"unknown", 0>> >>

(* C9, as claimed: detect_document_languages never fails and always returns *)
(* at least one entry: the candidates of the primary detector, entry 0 of   *)
(* maximum confidence; (best guess, 1.0) when it raises; ("unknown", 0.0)   *)
(* when the fallback raises too.                                            *)
C9_AtLeastOneEntry ==
    call.fn = "detect" => C9_ByCase /\ Len(call.result.value) >= 1

(* C9, amended: as claimed, but the list is empty when the primary detector *)
(* returns no candidate, and only then; process_legal_documents then takes  *)
(* "unknown" as the primary language and otherwise the code of entry 0.     *)
C9_EntriesOfDetector ==
    call.fn = "detect" =>
        /\ C9_ByCase
        /\ Len(call.result.value) = 0 <=>
              (~call.primary.raised /\ call.primary.value = <<>>)
        /\ ~call.primary_language.raised
        /\ call.primary_language.value =
              IF Len(call.result.value) = 0 THEN "unknown"
              ELSE call.result.value[1][1]

(* C9, witness: the primary detector raised and the fallback answered *)
C9_Witness ==
    /\ call.fn = "detect"
    /\ call.primary.raised
    /\ call.fallback = Ret("fr")
    /\ call.result = Ret(<< <<"fr", 100>> >>)

---------------------------------------------------------------------------
(* Claims about process_legal_documents, under Spec and LiveSpec *)

Entries(step) == SelectSeq(log, LAMBDA e : e.step = step)

\* The file of a log entry, and its path
FileOf(e) == walk[e.dir].files[e.idx]
PathOf(e) == walk[e.dir].root \o <<"/">> \o FileOf(e)

\* The file name of a path: what follows its last "/"
Basename(p) ==
    LET slashes == {i \in 1..Len(p) : p[i] = "/"}
        last == IF slashes = {} THEN 0
                ELSE CHOOSE i \in slashes : \A j \in slashes : j <= i
    IN  SubSeq(p, last + 1, Len(p))

\* A file name the spec calls supported
ClaimedName(name) ==
    \E n \in {name} : \E l \in {lower(n)} :
        /\ endswith(l, <<".", "p", "d", "f">>) \/ endswith(l, <<".", "d", "o", "c", "x">>)
        /\ ~startswith(n, <<"~", "$">>)

\* No file is in progress
BetweenFiles == pc \in {"walk", "done"}

FilePaths(recs) == [i \in 1..Len(recs) |-> recs[i].file_path]
EntryPaths(es) == [i \in 1..Len(es) |-> PathOf(es[i])]

\* e is an earlier file than f in the traversal
Earlier(e, f) == e.dir < f.dir \/ (e.dir = f.dir /\ e.idx < f.idx)
SameFile(e, f) == e.dir = f.dir /\ e.idx = f.idx

(* C1, as claimed: a file whose extraction returns null produces no record  *)
(* and a file whose extraction returns any text, the empty text included,   *)
(* exactly one.                                                             *)
C1_RecordUnlessNull ==
    BetweenFiles =>
        FilePaths(results) =
            EntryPaths(SelectSeq(Entries("extract"),
                LAMBDA e : e.out \notin {"encrypted", "unreadable"}))

(* C1, amended: a file whose extraction returns null or the empty text      *)
(* produces no record, and a file whose extraction returns a non-empty text *)
(* exactly one; a tree holding one readable non-encrypted PDF with text and *)
(* one encrypted PDF gives exactly one record, for the non-encrypted file.  *)
C1_RecordIffNonEmptyText ==
    /\ BetweenFiles =>
          FilePaths(results) =
              EntryPaths(SelectSeq(Entries("extract"), LAMBDA e : e.out = "text"))
    /\ \A i, j \in 1..Len(log) :
          (/\ pc = "done"
           /\ Len(log) = 5
           /\ log[i].step = "extract" /\ log[i].out = "text"
           /\ log[j].step = "extract" /\ log[j].out = "encrypted") =>
              /\ Len(returned) = 1
              /\ returned[1].file_path = PathOf(log[i])

(* C1, witness: the run over the encrypted docs/a.pdf and the readable      *)
(* docs/old/a.pdf has returned                                              *)
C1_Witness ==
    /\ pc = "done"
    /\ Len(log) = 5
    /\ log[1].step = "extract" /\ log[1].out = "encrypted"
    /\ log[2].step = "extract" /\ log[2].out = "text"
    /\ Len(returned) = 1
    /\ returned[1].file_path = d_sub \o <<"/">> \o n_a_pdf

(* C2: no record is of a file whose name does not end, in any case, in      *)
(* ".pdf" or ".docx" or whose name starts with "~$", and no step is taken   *)
(* for such a file.                                                         *)
C2_OnlySupportedFiles ==
    /\ \A i \in 1..Len(results) : ClaimedName(Basename(results[i].file_path))
    /\ \A i \in 1..Len(returned) : ClaimedName(Basename(returned[i].file_path))
    /\ \A i \in 1..Len(log) : ClaimedName(FileOf(log[i]))
    /\ pc \notin {"walk", "done"} => ClaimedName(file)

(* C2, witness: a run over a temporary file and a supported file returned   *)
(* the record of the supported file                                         *)
C2_Witness ==
    /\ pc = "done"
    /\ walk = <<[root |-> d_base, files |-> <<n_tmp_docx, n_B_Docx>>]>>
    /\ Len(returned) = 1
    /\ Len(log) = 4

\* The supported files of the tree, as the positions they have in the walk
Supported ==
    {<<d, i>> \in (1..Len(walk)) \X (1..MaxFiles) :
        i <= Len(walk[d].files) /\ ClaimedName(walk[d].files[i])}

C3_Safe ==
    /\ pc /= "raised"
    /\ pc = "done" =>
          /\ \A f \in Supported :
                \E i \in 1..Len(log) :
                    /\ log[i].step = "extract"
                    /\ <<log[i].dir, log[i].idx>> = f
                    /\ log[i].out = "text" =>
                          \E k \in 1..Len(returned) :
                              returned[k].file_path = PathOf(log[i])
          /\ returned = results

(* C3: process_legal_documents never raises, returns, and has then          *)
(* processed every supported file, whatever failed for the files before it, *)
(* with a record for each file whose extraction gave text.                  *)
C3_FailuresStayPerFile == []C3_Safe /\ <>(pc = "done")

(* C3, witness: the classification call failed for one file and a later     *)
(* file was extracted, and both have a record                               *)
C3_Witness ==
    /\ pc = "done"
    /\ Len(returned) = 2
    /\ \E i, j \in 1..Len(log) :
          /\ i < j
          /\ log[i].step = "classify_call" /\ log[i].out = "failed"
          /\ log[j].step = "extract" /\ log[j].out = "text"

(* C7: analyze_with_gemini never raises; when the model call raises it      *)
(* returns "Error using Gemini API: {message}", and the record of the file  *)
(* is appended with that string as analysis and with the doc_type and the   *)
(* languages computed before the failure.                                   *)
C7_AnalysisErrorInRecord ==
    /\ pc /= "raised"
    /\ (pc = "append" /\ log[Len(log)].out = "failed") =>
          analysis = <<"Error using Gemini API: ", log[Len(log)].val[1]>>
    /\ BetweenFiles => Len(results) = Len(Entries("analysis_call"))
    /\ \A k \in 1..Len(results) :
          LET a == Entries("analysis_call")[k]
              c == Entries("classify_call")[k]
              d == Entries("detect")[k]
          IN  /\ SameFile(a, c) /\ SameFile(a, d)
              /\ results[k].file_path = PathOf(a)
              /\ a.out = "failed" =>
                    /\ results[k].analysis =
                          <<"Error using Gemini API: ", a.val[1]>>
                    /\ results[k].doc_type = c.val
                    /\ results[k].languages = d.val

(* C7, witness: the analysis call failed for a file classified as "power of *)
(* attorney" in two detected languages, and its record is in the list       *)
C7_Witness ==
    /\ pc = "done"
    /\ Len(returned) = 1
    /\ returned[1].analysis = <<"Error using Gemini API: ", "504 deadline exceeded">>
    /\ returned[1].doc_type = s_power_of_attorney
    /\ returned[1].languages = << <<"id", 85>>, <<"en", 14>> >>

Rank(step) ==
    CASE step = "extract" -> 1
      [] step = "detect" -> 2
      [] step = "classify_call" -> 3
      [] step = "analysis_call" -> 4

ModelCalls ==
    SelectSeq(log, LAMBDA e : e.step \in {"classify_call", "analysis_call"})

(* C10: the steps of a file are taken in order, once each, and after every  *)
(* step of the files before it; a file with a record has exactly one        *)
(* classification call, after its extraction and language detection, then   *)
(* exactly one analysis call, also when the classification call failed; a   *)
(* file without text causes no model call; at the end the model calls are   *)
(* twice the records, and the records are in traversal order.               *)
C10_OrderedNoRetry ==
    /\ \A i \in 1..(Len(log) - 1) :
          \/ Earlier(log[i], log[i + 1])
          \/ /\ SameFile(log[i], log[i + 1])
             /\ Rank(log[i].step) < Rank(log[i + 1].step)
    /\ \A i \in 1..Len(log) :
          /\ log[i].step = "extract" => ClaimedName(FileOf(log[i]))
          /\ log[i].step /= "extract" =>
                /\ i > 1
                /\ SameFile(log[i - 1], log[i])
                /\ Rank(log[i - 1].step) + 1 = Rank(log[i].step)
          /\ log[i].step = "detect" => log[i - 1].out = "text"
          /\ (log[i].step = "extract" /\ log[i].out /= "text" /\ i < Len(log)) =>
                Earlier(log[i], log[i + 1])
          /\ (log[i].step = "classify_call" /\ i < Len(log)) =>
                /\ SameFile(log[i], log[i + 1])
                /\ log[i + 1].step = "analysis_call"
    /\ BetweenFiles =>
          /\ FilePaths(results) = EntryPaths(Entries("classify_call"))
          /\ FilePaths(results) = EntryPaths(Entries("analysis_call"))
          /\ \A i, j \in 1..Len(results) :
                i < j => Earlier(Entries("analysis_call")[i],
                                 Entries("analysis_call")[j])
    /\ pc = "done" => Len(ModelCalls) = 2 * Len(returned)

(* C10, witness: a run of two records has returned, the classification call *)
(* of the first file having failed and its analysis call having been made   *)
C10_Witness ==
    /\ pc = "done"
    /\ Len(returned) = 2
    /\ Len(ModelCalls) = 4
    /\ ModelCalls[1].step = "classify_call" /\ ModelCalls[1].out = "failed"
    /\ ModelCalls[2].step = "analysis_call"

====
